---- MODULE Spec2Model ----
(***************************************************************************)
(* State-machine model of the NeutronDetector class (neutronDetector.h /   *)
(* neutronDetector.cpp) and of the sketch loop that drives it              *)
(* (neutronDetectorSA.ino).                                                *)
(*                                                                         *)
(* Numbers.  Times are microseconds.  Sample values, decay time, rise time *)
(* and pulse area are integers: every float the analysis computes is an    *)
(* integer multiple of 5 below 2^24 (or the sentinel -1), so float         *)
(* arithmetic is exact there.  _baseline and _noiseRMS are genuine floats; *)
(* they are kept in fixed point, FP units per ADC count, with the filter   *)
(* products rounded to the nearest unit.                                   *)
(*                                                                         *)
(* Time.  micros is the platform clock.  Every busy-wait and delay takes   *)
(* exactly the time the code waits for; reads and arithmetic take none.    *)
(* The uint32_t/uint64_t counters stay far below their width within the    *)
(* bounds, so they are plain naturals.                                     *)
(*                                                                         *)
(* tick, log, lastProbe and response observe the run; no action of the    *)
(* detector reads them.                                                    *)
(*                                                                         *)
(* Three specifications: Spec, update() as one step per pass, with the     *)
(* queries; SpecSweep, the same step with every waveform on the last pass; *)
(* SpecWait, update() step by step with the clock as a step of its own,    *)
(* where frame holds the position and is "idle" in the other two.          *)
(***************************************************************************)
EXTENDS Integers, Sequences, FiniteSets

(***************************************************************************)
(* Program constants (neutronDetector.h, neutronDetectorSA.ino).           *)
(***************************************************************************)
SAMPLE_INTERVAL_US == 10
OVERSAMPLE_INTERVAL_US == 2
OVERSAMPLE_COUNT == 16
MAX_RAW_VALUE == 1023
MIN_PULSE_AMPLITUDE == 10
NEUTRON_DECAY_TIME_THRESHOLD == 25
NEUTRON_RISE_TIME_THRESHOLD == 12
NEUTRON_AREA_THRESHOLD == 500
BASELINE_DEVIATION_THRESHOLD == 5
CONNECTION_CHECK_INTERVAL == 1000000
minInterval == 2000
DefaultThreshold == 100
InitialBaseline == 512
InitialNoiseRMS == 40
NoiseFloor == 2
ConnProbeCount == 10
ConnStableMin == 8
ConnGuard == 10
ConnProbeDelayUs == 100
LoopDelayUs == 1000
DefaultHistoryCount == 5

(***************************************************************************)
(* Fixed-point resolution of the two float fields.                         *)
(***************************************************************************)
FP == 1000

(***************************************************************************)
(* Bounds of the model.  The ring capacity and the waveform length are     *)
(* scaled down from 30; every formula is stated with them as parameters.   *)
(***************************************************************************)
MAX_PULSES == 2
SAMPLES_PER_PULSE == 6
MaxTicks == 4
MaxPasses == 3

VARIABLES
    micros,                 \* the monotonic microsecond clock
    ticks,                  \* number of loop() iterations run so far
    _initialized,
    _inputConnected,
    _lastConnectionCheck,
    _lastCaptureTime,
    _pulses,                \* [0..MAX_PULSES-1 -> Pulse]
    _writeIndex,
    _storedCount,
    _threshold,             \* uint16_t
    _baseline,              \* float, in 1/FP counts
    _noiseRMS,              \* float, in 1/FP counts
    _totalPulses,
    _neutronCount,
    _lastNeutronTime,
    _maxPulseArea,
    _maxDecayTime,
    tick,                   \* what the last update() did (observation)
    log,                    \* what the captures did so far (observation)
    lastProbe,              \* the ten reads of the last connection check (observation)
    frame,                  \* where update() stands and its locals, when followed step by step
    response                \* the last answer given to a query

detector == << _initialized, _inputConnected, _lastConnectionCheck, _lastCaptureTime,
               _pulses, _writeIndex, _storedCount, _threshold, _baseline, _noiseRMS,
               _totalPulses, _neutronCount, _lastNeutronTime, _maxPulseArea,
               _maxDecayTime >>

vars == << micros, ticks, detector, tick, log, lastProbe, frame, response >>

SampleIdx == 0 .. (SAMPLES_PER_PULSE - 1)
SlotIdx == 0 .. (MAX_PULSES - 1)

Min(a, b) == IF a < b THEN a ELSE b
Max(a, b) == IF a > b THEN a ELSE b
Abs(a) == IF a < 0 THEN 0 - a ELSE a

(***************************************************************************)
(* struct Pulse, and the value of `static Pulse defaultPulse = {0}`.       *)
(***************************************************************************)
Pulse(ts, smp, pk) == [timestamp |-> ts, samples |-> smp, peakValue |-> pk]
defaultPulse == Pulse(0, [i \in SampleIdx |-> 0], 0)

(***************************************************************************)
(* overSample(true): OVERSAMPLE_COUNT raw reads, summed, then sum >> 4.    *)
(* reads is the sequence of values analogRead returns.                     *)
(***************************************************************************)
RECURSIVE SumReads(_, _)
SumReads(reads, n) == IF n = 0 THEN 0 ELSE SumReads(reads, n - 1) + reads[n]

overSample(reads) == SumReads(reads, OVERSAMPLE_COUNT) \div 16

\* Busy-wait of overSample: the loop leaves only when (count-1)*interval has passed.
OversampleTime == (OVERSAMPLE_COUNT - 1) * OVERSAMPLE_INTERVAL_US

(***************************************************************************)
(* checkInputConnected(): ten raw reads, stable iff strictly inside        *)
(* (10, MAX_RAW_VALUE - 10); connected iff at least 8 are stable.          *)
(***************************************************************************)
\* Faulty variant: the borders of the range taken as valid.
IsStable_Inclusive(val) == val >= ConnGuard /\ val <= MAX_RAW_VALUE - ConnGuard

IsStable(val) == val > ConnGuard /\ val < MAX_RAW_VALUE - ConnGuard

stableReadings(probe) == Cardinality({i \in 1 .. ConnProbeCount : IsStable(probe[i])})

checkInputConnected(probe) == stableReadings(probe) >= ConnStableMin

ConnCheckTime == ConnProbeCount * ConnProbeDelayUs

(***************************************************************************)
(* updateBaseline() / updateThreshold(), on the oversampled reading.       *)
(* b and n are in 1/FP counts; the results are the new field values.       *)
(***************************************************************************)
Deviation(b, newReading) == newReading * FP - b

FilterStep(old, input) == (19 * old + input + 10) \div 20

NewBaseline(b, newReading) == FilterStep(b, newReading * FP)

\* Faulty variant: the noise update run on every reading.
DeviationExceeds_Always(dev) == Abs(dev) >= 0

DeviationExceeds(dev) == Abs(dev) > BASELINE_DEVIATION_THRESHOLD * FP

NewNoiseRMS(n, currentDev) == Max(FilterStep(n, Abs(currentDev)), NoiseFloor * FP)

\* _threshold is uint16_t: the float sum is truncated on assignment.
NewThreshold(b, n) == (b + 4 * n) \div FP

updateBaseline(b, n, th, newReading) ==
    LET dev == Deviation(b, newReading)
        b2  == NewBaseline(b, newReading)
    IN  IF DeviationExceeds(dev)
        THEN LET n2 == NewNoiseRMS(n, dev)
             IN  [baseline |-> b2, noiseRMS |-> n2, threshold |-> NewThreshold(b2, n2)]
        ELSE [baseline |-> b2, noiseRMS |-> n, threshold |-> th]

\* update(): `val - _baseline >= _threshold`, evaluated in float.
Triggers(val, b, th) == val * FP - b >= th * FP

(***************************************************************************)
(* Pulse analysis.  Times in microseconds, area in amplitude*microseconds. *)
(***************************************************************************)
\* The scan `if (p.samples[i] > peak)`: the maximum, and the first index holding it.
PeakOf(smp) == CHOOSE v \in {smp[i] : i \in SampleIdx} \cup {0} :
                   \A i \in SampleIdx : smp[i] <= v

FirstIndex(S, default) == IF S = {} THEN default
                          ELSE CHOOSE i \in S : \A j \in S : i <= j

PeakIndexOf(smp) == FirstIndex({i \in SampleIdx : smp[i] > 0 /\ smp[i] = PeakOf(smp)}, 0)

\* `const uint8_t threshold = peak * 0.1f` truncates to floor(peak / 10).
DecayFloor(peak) == peak \div 10

computeDecayTime(p) ==
    LET peak      == PeakOf(p.samples)
        peakIndex == PeakIndexOf(p.samples)
        below     == {i \in SampleIdx : i >= peakIndex /\ p.samples[i] < DecayFloor(peak)}
    IN  IF peak < MIN_PULSE_AMPLITUDE THEN -1
        ELSE IF below = {} THEN -1
        ELSE (FirstIndex(below, 0) - peakIndex) * SAMPLE_INTERVAL_US

RECURSIVE AreaUpTo(_, _)
AreaUpTo(smp, n) ==
    IF n = 0 THEN 0
    ELSE AreaUpTo(smp, n - 1) + ((smp[n - 1] + smp[n]) * SAMPLE_INTERVAL_US) \div 2

computePulseArea(p) == AreaUpTo(p.samples, SAMPLES_PER_PULSE - 1)

\* sample >= 0.1f * peak  <=>  10 * sample >= peak;  likewise 0.9f.
computeRiseTime(p) ==
    LET peak == PeakOf(p.samples)
        t10  == FirstIndex({i \in SampleIdx : 10 * p.samples[i] >= peak}, 0)
        t90  == FirstIndex({i \in SampleIdx : i >= t10 /\ 10 * p.samples[i] >= 9 * peak}, 0)
    IN  (t90 - t10) * SAMPLE_INTERVAL_US

\* Faulty variant: the area limit included.
IsNeutron_AreaInclusive(decayTime, riseTime, pulseArea) ==
    /\ decayTime > NEUTRON_DECAY_TIME_THRESHOLD
    /\ riseTime > NEUTRON_RISE_TIME_THRESHOLD
    /\ pulseArea >= NEUTRON_AREA_THRESHOLD

\* Faulty variant: the decay time left out of the classification.
IsNeutron_NoDecayTest(decayTime, riseTime, pulseArea) ==
    /\ riseTime > NEUTRON_RISE_TIME_THRESHOLD
    /\ pulseArea > NEUTRON_AREA_THRESHOLD

IsNeutron(decayTime, riseTime, pulseArea) ==
    /\ decayTime > NEUTRON_DECAY_TIME_THRESHOLD
    /\ riseTime > NEUTRON_RISE_TIME_THRESHOLD
    /\ pulseArea > NEUTRON_AREA_THRESHOLD

analyzePulse(p, b, th) ==
    LET d == computeDecayTime(p)
        r == computeRiseTime(p)
        a == computePulseArea(p)
    IN  [decayTime |-> d, riseTime |-> r, pulseArea |-> a,
         isNeutron |-> IsNeutron(d, r, a), baseline |-> b, threshold |-> th]

(***************************************************************************)
(* capturePulse(), the sampling loop.  p is the ring slot being written in *)
(* place, wave[i] the reads of the i-th overSample call.  The result is    *)
(* the slot afterwards, whether the loop ran to its end, and the number of *)
(* overSample calls made.                                                  *)
(***************************************************************************)
RECURSIVE SampleLoop(_, _, _, _)
SampleLoop(p, wave, i, peak) ==
    IF i = SAMPLES_PER_PULSE
    THEN [pulse |-> [p EXCEPT !.peakValue = peak], completed |-> TRUE, reads |-> i]
    ELSE LET raw == overSample(wave[i])
         IN  IF raw >= MAX_RAW_VALUE
             THEN [pulse |-> p, completed |-> FALSE, reads |-> i + 1]
             ELSE LET s == raw \div 4
                  IN  SampleLoop([p EXCEPT !.samples[i] = s], wave, i + 1, Max(peak, s))

CaptureInto(p, wave, timestamp) ==
    SampleLoop([p EXCEPT !.timestamp = timestamp], wave, 0, 0)

(***************************************************************************)
(* The ring: push (capturePulse lines 77-79), getPulse, reset.             *)
(***************************************************************************)
NextWriteIndex(w) == (w + 1) % MAX_PULSES

\* Faulty variant: the stored count not capped.
NextStoredCount_Uncapped(c) == c + 1

NextStoredCount(c) == IF c + 1 < MAX_PULSES THEN c + 1 ELSE MAX_PULSES

\* Faulty variant: the stored count left out of the mapping.
actualIndex_NoCount(index) == (_writeIndex + index) % MAX_PULSES

actualIndex(index) == (_writeIndex + MAX_PULSES - _storedCount + index) % MAX_PULSES

\* Faulty variant: the bounds check off by one.
InRange_OffByOne(index) == ~(index > _storedCount)

InRange(index) == ~(index >= _storedCount)

getPulseCount == _storedCount

getPulse(index) == IF InRange(index) THEN _pulses[actualIndex(index)] ELSE defaultPulse

\* The ring slots getPulse(index) reads.
slotsRead(index) == IF InRange(index) THEN {actualIndex(index)} ELSE {}

getPulseAnalysis(index) == analyzePulse(getPulse(index), _baseline, _threshold)

(***************************************************************************)
(* What the platform can deliver: analogRead values and idle time.         *)
(***************************************************************************)
Burst(v) == [k \in 1 .. OVERSAMPLE_COUNT |-> v]

RestLevel == InitialBaseline
HighLevel == 700

\* The 16 reads of one overSample call outside a capture.
ReadBursts == {Burst(RestLevel), Burst(HighLevel)}

\* A scintillation-like pulse: slow rise, long tail.
NeutronWave == [i \in SampleIdx |->
                   Burst(CASE i = 0 -> 120 [] i = 1 -> 400 [] i = 2 -> 1000
                           [] i = 3 -> 800 [] i = 4 -> 400 [] OTHER -> 0)]

\* A noise spike: one high sample.
SpikeWave == [i \in SampleIdx |-> Burst(IF i = 0 THEN 1000 ELSE 0)]

\* A clipped signal: a plateau with every read of sample k at the ADC maximum.
ClippedWave(k) == [i \in SampleIdx |-> Burst(IF i = k THEN MAX_RAW_VALUE ELSE HighLevel)]

\* Where the clipping sets in: in mid-pulse.
ClipPositions == {SAMPLES_PER_PULSE \div 2}

Waves == {NeutronWave, SpikeWave} \cup {ClippedWave(k) : k \in ClipPositions}

\* The ten reads of a connection check: g in-range reads, then rail reads.
Probe(g, inRange, rail) == [k \in 1 .. ConnProbeCount |-> IF k <= g THEN inRange ELSE rail]

Probes == {Probe(ConnProbeCount, RestLevel, 0), Probe(ConnStableMin - 1, RestLevel, MAX_RAW_VALUE)}

\* Time spent outside update() in one loop() pass, beyond delay(1).
Idles == {0, CONNECTION_CHECK_INTERVAL}

\* reading is the reading that triggered the capture of the pass, lastTrigger the
\* start time of the last pass that triggered one (-1: none yet).
NoTick == [kind |-> "none", now |-> 0, checked |-> FALSE, oversamples |-> 0,
           reading |-> 0, lastTrigger |-> -1]
NoResponse == [kind |-> "none"]

\* update() not running: pc is "idle" between two passes of loop().
NoFrame == [pc |-> "idle", outcome |-> "none", now |-> 0, call |-> "none", val |-> 0,
            i |-> 0, start |-> 0, n |-> 0, sampleStart |-> 0]

(***************************************************************************)
(* Constructor (with the sketch's `NeutronDetector detector(A0)`, a global *)
(* and therefore zero-initialized before the constructor runs).            *)
(***************************************************************************)
Init ==
    /\ micros = 0
    /\ ticks = 0
    /\ _initialized = FALSE
    /\ _inputConnected = FALSE
    /\ _lastConnectionCheck = 0
    /\ _lastCaptureTime = 0
    /\ _pulses = [k \in SlotIdx |-> defaultPulse]
    /\ _writeIndex = 0
    /\ _storedCount = 0
    /\ _threshold = DefaultThreshold
    /\ _baseline = InitialBaseline * FP
    /\ _noiseRMS = InitialNoiseRMS * FP
    /\ _totalPulses = 0
    /\ _neutronCount = 0
    /\ _lastNeutronTime = 0
    /\ _maxPulseArea = 0
    /\ _maxDecayTime = 0
    /\ tick = NoTick
    /\ log = [pushed |-> << >>, written |-> {}, abandonedSinceReset |-> 0,
              completed |-> 0, abandoned |-> 0, readings |-> 0, restOnly |-> TRUE,
              analyses |-> << >>]
    /\ lastProbe = << >>
    /\ frame = NoFrame
    /\ response = NoResponse

\* setup(): detector.begin(), then the loop starts.
begin ==
    /\ ~_initialized
    /\ _initialized' = TRUE
    /\ UNCHANGED << micros, ticks, _inputConnected, _lastConnectionCheck, _lastCaptureTime,
                    _pulses, _writeIndex, _storedCount, _threshold, _baseline, _noiseRMS,
                    _totalPulses, _neutronCount, _lastNeutronTime, _maxPulseArea,
                    _maxDecayTime, tick, log, lastProbe, frame, response >>

\* Faulty variant: reset() clearing the cursor only.
reset_CursorOnly ==
    /\ _writeIndex' = 0
    /\ UNCHANGED _storedCount

\* reset()
reset ==
    /\ _writeIndex' = 0
    /\ _storedCount' = 0

(***************************************************************************)
(* update(), by the way it ends.  now is the clock read on entry, t the    *)
(* clock when the part starts, idle the time until the next loop() pass.   *)
(* log only observes: Observed(n, rest) notes n more overSample calls and  *)
(* whether all of them returned the initial baseline.                      *)
(***************************************************************************)
EndOfPass(t, idle) == micros' = t + LoopDelayUs + idle

Observed(n, rest) == [log EXCEPT !.readings = @ + n, !.restOnly = @ /\ rest]

AtRest(reading) == reading = InitialBaseline

\* Lines 33-37: the check found the input disconnected.
Disconnected(now, t, idle) ==
    /\ reset
    /\ EndOfPass(t, idle)
    /\ tick' = [kind |-> "disconnected", now |-> now, checked |-> TRUE, oversamples |-> 0,
                reading |-> 0, lastTrigger |-> tick.lastTrigger]
    /\ log' = [log EXCEPT !.pushed = << >>, !.abandonedSinceReset = 0, !.written = {}]
    /\ UNCHANGED << _lastCaptureTime, _pulses, _threshold, _baseline, _noiseRMS,
                    _totalPulses, _neutronCount, _lastNeutronTime, _maxPulseArea,
                    _maxDecayTime >>

\* Lines 42-53 without a capture: the gate is closed or the reading is below threshold.
NoCapture(now, t, idle, checked, reads, rest) ==
    /\ EndOfPass(t + reads * OversampleTime, idle)
    /\ tick' = [kind |-> "quiet", now |-> now, checked |-> checked, oversamples |-> reads,
                reading |-> 0, lastTrigger |-> tick.lastTrigger]
    /\ log' = Observed(reads, rest)
    /\ UNCHANGED << _lastCaptureTime, _pulses, _writeIndex, _storedCount,
                    _totalPulses, _neutronCount, _lastNeutronTime,
                    _maxPulseArea, _maxDecayTime >>

\* Faulty variant: the maximum overwritten by every pulse.
NewMaxPulseArea_Overwrite(pulseArea) == pulseArea

\* Lines 87 and 88.
NewMaxPulseArea(pulseArea) == IF pulseArea > _maxPulseArea THEN pulseArea ELSE _maxPulseArea

NewMaxDecayTime(decayTime) == IF decayTime > _maxDecayTime THEN decayTime ELSE _maxDecayTime

\* capturePulse() lines 77-88, after a loop that ran to its end.
Commit(p, b, th, reads) ==
    LET analysis == analyzePulse(p, b, th)
    IN  /\ _pulses' = [_pulses EXCEPT ![_writeIndex] = p]
        /\ _writeIndex' = NextWriteIndex(_writeIndex)
        /\ _storedCount' = NextStoredCount(_storedCount)
        /\ _neutronCount' = IF analysis.isNeutron THEN _neutronCount + 1 ELSE _neutronCount
        /\ _lastNeutronTime' = IF analysis.isNeutron THEN p.timestamp ELSE _lastNeutronTime
        /\ _maxPulseArea' = NewMaxPulseArea(analysis.pulseArea)
        /\ _maxDecayTime' = NewMaxDecayTime(analysis.decayTime)
        /\ log' = [Observed(reads, FALSE) EXCEPT
                       !.pushed = Append(@, p),
                       !.completed = @ + 1,
                       !.written = @ \cup {_writeIndex},
                       !.analyses = Append(@, [timestamp |-> p.timestamp,
                                               decayTime |-> analysis.decayTime,
                                               riseTime  |-> analysis.riseTime,
                                               pulseArea |-> analysis.pulseArea])]

\* Faulty variant: the loop left with `break`, the cursor and the count advance.
Abandon_Advancing(p, reads) ==
    /\ _pulses' = [_pulses EXCEPT ![_writeIndex] = p]
    /\ _writeIndex' = NextWriteIndex(_writeIndex)
    /\ _storedCount' = NextStoredCount(_storedCount)
    /\ log' = [Observed(reads, FALSE) EXCEPT !.abandonedSinceReset = @ + 1,
                                             !.abandoned = @ + 1]
    /\ UNCHANGED << _neutronCount, _lastNeutronTime, _maxPulseArea, _maxDecayTime >>

\* capturePulse() line 71: `return` out of the loop; the slot keeps what was written.
Abandon(p, reads) ==
    /\ _pulses' = [_pulses EXCEPT ![_writeIndex] = p]
    /\ log' = [Observed(reads, FALSE) EXCEPT !.abandonedSinceReset = @ + 1,
                                             !.abandoned = @ + 1]
    /\ UNCHANGED << _writeIndex, _storedCount, _neutronCount, _lastNeutronTime,
                    _maxPulseArea, _maxDecayTime >>

\* Faulty variant: only committed captures counted.
CountAttempt_OnlyCommitted ==
    _totalPulses' = IF _writeIndex' # _writeIndex THEN _totalPulses + 1 ELSE _totalPulses

\* Line 51.
CountAttempt == _totalPulses' = _totalPulses + 1

\* Lines 47-52: the reading triggered; capturePulse(), then the two assignments.
Capture(now, t, idle, checked, val, wave, b, th) ==
    LET start == t + 2 * OversampleTime
        cap   == CaptureInto(_pulses[_writeIndex], wave, start)
    IN  /\ IF cap.completed
           THEN Commit(cap.pulse, b, th, 2 + cap.reads)
           ELSE Abandon(cap.pulse, 2 + cap.reads)
        /\ _lastCaptureTime' = now
        /\ CountAttempt
        /\ EndOfPass(start + cap.reads * OversampleTime, idle)
        /\ tick' = [kind |-> IF cap.completed THEN "captured" ELSE "abandoned",
                    now |-> now, checked |-> checked, oversamples |-> 2 + cap.reads,
                    reading |-> val, lastTrigger |-> now]

\* Faulty variant: no minimum interval between captures.
IntervalElapsed_Always(now) == TRUE

\* Line 44.
IntervalElapsed(now) == now - _lastCaptureTime >= minInterval

\* Lines 42-53.  bursts are the reads updateBaseline() may see, triggers the
\* reads of the trigger comparison, waves the signals a capture may sample.
Acquire(now, t, idle, checked, bursts, triggers, waves) ==
    \E bReads \in bursts :
        LET newReading == overSample(bReads)
            nb == updateBaseline(_baseline, _noiseRMS, _threshold, newReading)
        IN  /\ _baseline' = nb.baseline
            /\ _noiseRMS' = nb.noiseRMS
            /\ _threshold' = nb.threshold
            /\ IF IntervalElapsed(now)
               THEN \E tReads \in triggers :
                        LET val == overSample(tReads)
                        IN  IF Triggers(val, nb.baseline, nb.threshold)
                            THEN \E wave \in waves :
                                     Capture(now, t, idle, checked, val, wave,
                                             nb.baseline, nb.threshold)
                            ELSE NoCapture(now, t, idle, checked, 2,
                                           AtRest(newReading) /\ AtRest(val))
               ELSE NoCapture(now, t, idle, checked, 1, AtRest(newReading))

\* Faulty variant: line 40 missing, the acquisition runs while disconnected.
Skipped_Acquiring(now, t, idle) ==
    Acquire(now, t, idle, FALSE, ReadBursts, ReadBursts, Waves)

\* Line 40: no check was due and the input is not connected.
Skipped(now, t, idle) ==
    /\ EndOfPass(t, idle)
    /\ tick' = [kind |-> "skipped", now |-> now, checked |-> FALSE, oversamples |-> 0,
                reading |-> 0, lastTrigger |-> tick.lastTrigger]
    /\ UNCHANGED << _lastCaptureTime, _pulses, _writeIndex, _storedCount, _threshold,
                    _baseline, _noiseRMS, _totalPulses, _neutronCount, _lastNeutronTime,
                    _maxPulseArea, _maxDecayTime, log >>

\* update() in one pass of loop(), with what the pass can meet: the time spent
\* outside update(), the reads of a connection check and of the acquisition.
Pass(idles, probes, bursts, triggers, waves) ==
    /\ _initialized
    /\ ticks < MaxTicks
    /\ ticks' = ticks + 1
    /\ response' = NoResponse
    /\ UNCHANGED << _initialized, frame >>
    /\ \E idle \in idles :
        LET now == micros
        IN  IF now - _lastConnectionCheck > CONNECTION_CHECK_INTERVAL
            THEN /\ _lastConnectionCheck' = now
                 /\ \E probe \in probes :
                        /\ _inputConnected' = checkInputConnected(probe)
                        /\ lastProbe' = probe
                        /\ IF checkInputConnected(probe)
                           THEN Acquire(now, now + ConnCheckTime, idle, TRUE,
                                        bursts, triggers, waves)
                           ELSE Disconnected(now, now + ConnCheckTime, idle)
            ELSE /\ UNCHANGED << _lastConnectionCheck, _inputConnected, lastProbe >>
                 /\ IF _inputConnected
                    THEN Acquire(now, now, idle, FALSE, bursts, triggers, waves)
                    ELSE Skipped(now, now, idle)

\* One pass of loop(): update(), then delay(1) and whatever else takes time.
update == Pass(Idles, Probes, ReadBursts, ReadBursts, Waves)

(***************************************************************************)
(* Queries.  A JSON document is modelled by the record of its fields; the  *)
(* capacity of the ArduinoJson documents is not modelled.                  *)
(***************************************************************************)
\* addPulseToJSON(doc, index)
addPulseToJSON(index) ==
    LET pulse    == getPulse(index)
        analysis == getPulseAnalysis(index)
    IN  [timestamp   |-> pulse.timestamp,
         decay_time  |-> analysis.decayTime,
         rise_time   |-> analysis.riseTime,
         pulse_area  |-> analysis.pulseArea,
         is_neutron  |-> analysis.isNeutron,
         baseline    |-> analysis.baseline,
         threshold   |-> analysis.threshold,
         peak_value  |-> pulse.peakValue,
         raw_samples |-> pulse.samples]

\* Faulty variant: the oldest pulse reported instead of the newest.
getLastPulseJSON_Oldest ==
    IF getPulseCount = 0
    THEN [kind |-> "last", status |-> "error", message |-> "no_pulses_detected"]
    ELSE [kind |-> "last", status |-> "ok", index |-> 0, pulse |-> addPulseToJSON(0)]

\* getLastPulseJSON()
getLastPulseJSON ==
    IF getPulseCount = 0
    THEN [kind |-> "last", status |-> "error", message |-> "no_pulses_detected"]
    ELSE [kind |-> "last", status |-> "ok", index |-> getPulseCount - 1,
          pulse |-> addPulseToJSON(getPulseCount - 1)]

\* getPulseHistoryJSON(count): lines 306-307, then the loop bounds of line 309.
actualCount(count) == Min(count, getPulseCount)

\* Faulty variant: the history always started at the oldest pulse.
startIndex_Oldest(count) == 0

startIndex(count) == IF getPulseCount >= count THEN getPulseCount - count ELSE 0

HistoryIndices(count) == [k \in 1 .. actualCount(count) |-> startIndex(count) + k - 1]

getPulseHistoryJSON(count) ==
    [kind          |-> "history",
     requested     |-> count,
     indices       |-> HistoryIndices(count),
     pulses        |-> [k \in 1 .. actualCount(count) |->
                           addPulseToJSON(HistoryIndices(count)[k])],
     count         |-> actualCount(count),
     total_pulses  |-> _totalPulses,
     neutron_count |-> _neutronCount]

\* getStatisticsJSON()
getStatisticsJSON ==
    [kind              |-> "stats",
     total_pulses      |-> _totalPulses,
     neutron_count     |-> _neutronCount,
     last_neutron_time |-> _lastNeutronTime,
     max_pulse_area    |-> _maxPulseArea,
     max_decay_time    |-> _maxDecayTime,
     current_baseline  |-> _baseline,
     current_threshold |-> _threshold,
     input_connected   |-> _inputConnected]

\* The `count` arguments a client sends to /neutron/history (0: absent).
HistoryParams == {0, 1}

\* The indices a caller passes to getPulseAnalysis: the oldest pulse, and one
\* that is never in range.
QueryIndices == {0, MAX_PULSES}

Unchanged == UNCHANGED << micros, ticks, detector, tick, log, lastProbe, frame >>

\* handleClient() serves at most one request per loop() pass.
CanServe == _initialized /\ response = NoResponse

\* GET /neutron/last
HandleLast ==
    /\ CanServe
    /\ response' = getLastPulseJSON
    /\ Unchanged

\* GET /neutron/history?count=N (lines 273-276)
HandleHistory ==
    /\ CanServe
    /\ \E countParam \in HistoryParams :
           response' = getPulseHistoryJSON(IF countParam = 0 THEN DefaultHistoryCount
                                           ELSE countParam)
    /\ Unchanged

\* GET /neutron/stats
HandleStats ==
    /\ CanServe
    /\ response' = getStatisticsJSON
    /\ Unchanged

AnalysisCall(index) ==
    [kind |-> "analysis", index |-> index,
     repeated |-> response.kind = "analysis" /\ response.index = index,
     pulse |-> getPulse(index), result |-> getPulseAnalysis(index)]

\* Faulty variant: the analysis keeping the neutron count, as capturePulse does.
CallGetPulseAnalysis_Counting ==
    /\ _initialized
    /\ response.kind \in {"none", "analysis"}
    /\ \E index \in QueryIndices :
           /\ response' = AnalysisCall(index)
           /\ _neutronCount' = IF getPulseAnalysis(index).isNeutron
                               THEN _neutronCount + 1 ELSE _neutronCount
    /\ UNCHANGED << micros, ticks, tick, log, lastProbe, frame, _initialized,
                    _inputConnected,
                    _lastConnectionCheck, _lastCaptureTime, _pulses, _writeIndex,
                    _storedCount, _threshold, _baseline, _noiseRMS, _totalPulses,
                    _lastNeutronTime, _maxPulseArea, _maxDecayTime >>

\* A direct call of the public getPulseAnalysis(index), as addPulseToJSON makes it;
\* the call can be repeated.
CallGetPulseAnalysis ==
    /\ _initialized
    /\ response.kind \in {"none", "analysis"}
    /\ \E index \in QueryIndices : response' = AnalysisCall(index)
    /\ Unchanged

Next == begin \/ update \/ HandleLast \/ HandleHistory \/ HandleStats \/ CallGetPulseAnalysis

Spec == Init /\ [][Next]_vars

(***************************************************************************)
(* The analysis over every waveform.  The detector is connected by its     *)
(* first check, captures NeutronWave on every pass but the last, so that   *)
(* the ring and the statistics are filled, and on the last pass, if every   *)
(* pass before it but the first captured, captures any waveform: every     *)
(* sequence of the four Levels, and a clipped plateau with the clipping at *)
(* every sample position.  The first connection check reads the values at  *)
(* the borders of the valid range.                                         *)
(***************************************************************************)
\* Raw reads whose samples (raw >> 2) are 0, 1, 15 and 100.
Levels == {0, 4, 60, 400}

LevelWave(f) == [i \in SampleIdx |-> Burst(f[i])]

\* Decay and rise time of a neutron and an area of exactly 500: samples 4, 0, 40,
\* 4, 4 and then 0.
LimitWave == [i \in SampleIdx |->
                Burst(IF i = 2 THEN 160 ELSE IF i \in {0, 3, 4} THEN 16 ELSE 0)]

SweepWaves == {LevelWave(f) : f \in [SampleIdx -> Levels]}
                  \cup {ClippedWave(k) : k \in SampleIdx}
                  \cup {LimitWave}

SteadyProbe == Probe(ConnProbeCount, RestLevel, 0)

\* Reads just inside and just outside `val > 10 && val < MAX_RAW_VALUE - 10`,
\* eight or seven of them valid.
BorderProbes ==
    {SteadyProbe,
     Probe(ConnStableMin, ConnGuard + 1, ConnGuard),
     Probe(ConnStableMin, MAX_RAW_VALUE - ConnGuard - 1, MAX_RAW_VALUE - ConnGuard),
     Probe(ConnStableMin - 1, ConnGuard + 1, ConnGuard),
     Probe(ConnProbeCount, ConnGuard, 0),
     Probe(ConnProbeCount, MAX_RAW_VALUE - ConnGuard, 0)}

\* The second pass starts before, at or after CONNECTION_CHECK_INTERVAL.
FirstIdles == {0, CONNECTION_CHECK_INTERVAL - LoopDelayUs, CONNECTION_CHECK_INTERVAL}

updateSweep ==
    Pass(IF ticks = 0 THEN FirstIdles ELSE {CONNECTION_CHECK_INTERVAL},
         IF _lastConnectionCheck = 0 THEN BorderProbes ELSE {SteadyProbe},
         {Burst(RestLevel)},
         {Burst(HighLevel)},
         IF _totalPulses = MaxTicks - 2 THEN SweepWaves ELSE {NeutronWave})

NextSweep == begin \/ updateSweep

SpecSweep == Init /\ [][NextSweep]_vars

(***************************************************************************)
(* update() step by step, for its busy-wait loops.  frame holds the        *)
(* position (pc) and the locals: now, the overSample call in progress with *)
(* its loop counter i and its start, and capturePulse's loop counter n and *)
(* sampleStart.  A loop `while (micros() - start < ...) {}` with a true    *)
(* condition changes nothing, so it is no step; it is left by the steps    *)
(* overSampleNext and capturePulseNext once the condition is false.  The   *)
(* clock is a step of its own.  The steps follow control and time: of the  *)
(* data they keep what decides the path (the connection state, the two     *)
(* time references, the attempt count, the reading val of each overSample  *)
(* call, taken as 16 equal reads), not the samples and the statistics.     *)
(***************************************************************************)
\* micros() advances in steps of its resolution, 4 us on the common boards, so that
\* a wait for i * 2 us overshoots.
ClockSteps == {4}

TriggerLevels == {RestLevel, HighLevel}

\* The signal saturates in mid-pulse or not at all.
SampleLevels(n) == IF n \in ClipPositions THEN {HighLevel, MAX_RAW_VALUE} ELSE {HighLevel}

Stepwise == << _initialized, _pulses, _threshold, _baseline, _noiseRMS, _neutronCount,
               _lastNeutronTime, _maxPulseArea, _maxDecayTime, tick, log, response >>

\* overSample(true) entered at clock t: lines 127-128.
EnterOverSample(f, call, levels, t) ==
    \E v \in levels :
        frame' = [f EXCEPT !.pc = "read", !.call = call, !.val = v, !.i = 0, !.start = t]

\* update() returns; loop() goes on to handleClient() and delay(1).
Return(outcome) == frame' = [NoFrame EXCEPT !.pc = "delay", !.outcome = outcome]

\* Lines 26-42, up to the call of overSample in updateBaseline().
updateEnter ==
    /\ _initialized
    /\ frame.pc = "idle"
    /\ ticks < MaxPasses
    /\ LET now == micros
           f   == [NoFrame EXCEPT !.now = now]
       IN  IF now - _lastConnectionCheck > CONNECTION_CHECK_INTERVAL
           THEN /\ _lastConnectionCheck' = now
                /\ micros' = now + ConnCheckTime
                /\ \E probe \in Probes :
                       /\ _inputConnected' = checkInputConnected(probe)
                       /\ lastProbe' = probe
                       /\ IF checkInputConnected(probe)
                          THEN /\ EnterOverSample(f, "baseline", {RestLevel},
                                                  now + ConnCheckTime)
                               /\ UNCHANGED << _writeIndex, _storedCount >>
                          ELSE /\ reset
                               /\ Return("disconnected")
           ELSE /\ UNCHANGED << _lastConnectionCheck, _inputConnected, lastProbe, micros,
                                _writeIndex, _storedCount >>
                /\ IF _inputConnected
                   THEN EnterOverSample(f, "baseline", {RestLevel}, now)
                   ELSE Return("skipped")
    /\ UNCHANGED << ticks, _lastCaptureTime, _totalPulses, Stepwise >>

\* Line 132: sum += analogRead(_pin).
analogReadStep ==
    /\ frame.pc = "read"
    /\ frame' = [frame EXCEPT !.pc = "spin"]
    /\ UNCHANGED << micros, ticks, _inputConnected, _lastConnectionCheck, _lastCaptureTime,
                    _writeIndex, _storedCount, _totalPulses, lastProbe, Stepwise >>

\* Line 133: the condition of the wait in overSample.
OverSampleWaits(f) == micros - f.start < f.i * OVERSAMPLE_INTERVAL_US

\* Line 65: the condition of the wait in capturePulse.
CaptureWaits(f) == micros - f.sampleStart < f.n * SAMPLE_INTERVAL_US

\* Faulty variant: the loop counter of overSample not advanced.
NextRead_Stuck(i) == i

\* Line 130: i++.
NextRead(i) == i + 1

\* capturePulse() lines 58-61, then its loop at n = 0; after it lines 50 and 51.
EnterCapture == frame' = [frame EXCEPT !.pc = "sampleSpin", !.call = "sample", !.n = 0,
                                       !.sampleStart = micros]

AfterCapture(outcome) ==
    /\ Return(outcome)
    /\ _lastCaptureTime' = frame.now
    /\ CountAttempt

\* overSample returned val to its caller: lines 42-47 and 70-75.
overSampleReturn ==
    IF frame.call = "baseline"
    THEN /\ IF IntervalElapsed(frame.now)
            THEN EnterOverSample(frame, "trigger", TriggerLevels, micros)
            ELSE Return("quiet")
         /\ UNCHANGED << _lastCaptureTime, _totalPulses >>
    ELSE IF frame.call = "trigger"
    THEN /\ IF Triggers(frame.val, _baseline, _threshold)
            THEN EnterCapture
            ELSE Return("quiet")
         /\ UNCHANGED << _lastCaptureTime, _totalPulses >>
    ELSE IF frame.val >= MAX_RAW_VALUE
    THEN AfterCapture("abandoned")
    ELSE IF frame.n + 1 < SAMPLES_PER_PULSE
    THEN /\ frame' = [frame EXCEPT !.pc = "sampleSpin", !.n = frame.n + 1]
         /\ UNCHANGED << _lastCaptureTime, _totalPulses >>
    ELSE AfterCapture("captured")

\* Lines 130-137: the wait is over, the loop goes on or overSample returns.
overSampleNext ==
    /\ frame.pc = "spin"
    /\ ~OverSampleWaits(frame)
    /\ IF NextRead(frame.i) < OVERSAMPLE_COUNT
       THEN /\ frame' = [frame EXCEPT !.pc = "read", !.i = NextRead(frame.i)]
            /\ UNCHANGED << _lastCaptureTime, _totalPulses >>
       ELSE overSampleReturn
    /\ UNCHANGED << micros, ticks, _inputConnected, _lastConnectionCheck,
                    _writeIndex, _storedCount, lastProbe, Stepwise >>

\* Lines 65-70: the wait is over, the sample is taken.
capturePulseNext ==
    /\ frame.pc = "sampleSpin"
    /\ ~CaptureWaits(frame)
    /\ EnterOverSample(frame, "sample", SampleLevels(frame.n), micros)
    /\ UNCHANGED << micros, ticks, _inputConnected, _lastConnectionCheck, _lastCaptureTime,
                    _writeIndex, _storedCount, _totalPulses, lastProbe, Stepwise >>

\* micros() moves on while a loop waits for it.
clockAdvance ==
    /\ \/ frame.pc = "spin" /\ OverSampleWaits(frame)
       \/ frame.pc = "sampleSpin" /\ CaptureWaits(frame)
    /\ \E d \in ClockSteps : micros' = micros + d
    /\ UNCHANGED << ticks, detector, tick, log, lastProbe, frame, response >>

\* loop(): server.handleClient() and delay(1) after update().
loopEnd ==
    /\ frame.pc = "delay"
    /\ frame' = [frame EXCEPT !.pc = "idle"]
    /\ ticks' = ticks + 1
    /\ \E idle \in Idles : EndOfPass(micros, idle)
    /\ UNCHANGED << detector, tick, log, lastProbe, response >>

Program == begin \/ updateEnter \/ analogReadStep \/ overSampleNext \/ capturePulseNext
               \/ loopEnd

NextWait == Program \/ clockAdvance

\* The processor keeps executing the sketch, and the clock keeps advancing.
SpecWait == Init /\ [][NextWait]_vars /\ WF_vars(Program) /\ WF_vars(clockAdvance)

(***************************************************************************)
(* Properties.                                                             *)
(***************************************************************************)
Stored == {i \in SlotIdx : i < getPulseCount}

Committed == {log.pushed[k] : k \in 1 .. Len(log.pushed)}

\* C1: every pulse a query can retrieve (getPulse(i), i < getPulseCount()) is a
\* fully captured waveform: its timestamp, samples and peak value are those of
\* one single capture that ran to its end.
C1_NoPartialPulse == \A i \in Stored : getPulse(i) \in Committed

\* C2: after n captures committed since the last reset with no abandoned capture
\* in between, getPulseCount() = min(n, MAX_PULSES) and getPulse(i) is the
\* (n - getPulseCount() + i + 1)-th pushed pulse.
C2_RingCorrectness ==
    log.abandonedSinceReset = 0 =>
        LET n == Len(log.pushed)
        IN  /\ getPulseCount = Min(n, MAX_PULSES)
            /\ \A i \in Stored : getPulse(i) = log.pushed[n - getPulseCount + i + 1]

\* C2 witness: the ring has wrapped (capacity + k pushes, k > 0) with no abandoned capture.
C2_Witness == log.abandonedSinceReset = 0 /\ Len(log.pushed) > MAX_PULSES

\* C3: getPulse(i) with i >= getPulseCount() returns the all-zero sentinel and reads
\* no ring slot; with i < getPulseCount() it reads one slot, inside the ring, that a
\* capture committed since the last reset.
C3_BoundsChecked ==
    \A index \in 0 .. (MAX_PULSES + 1) :
        IF index >= getPulseCount
        THEN slotsRead(index) = {} /\ getPulse(index) = defaultPulse
        ELSE /\ Cardinality(slotsRead(index)) = 1
             /\ slotsRead(index) \subseteq SlotIdx
             /\ slotsRead(index) \subseteq log.written

\* C3 witness: after a reset the ring still holds the data of an earlier capture,
\* and nothing is stored.
C3_Witness ==
    /\ tick.kind = "disconnected"
    /\ getPulseCount = 0
    /\ \E k \in SlotIdx : _pulses[k] # defaultPulse

\* C4: a tick whose connection check (run only when more than
\* CONNECTION_CHECK_INTERVAL has passed since the previous one) finds the input
\* disconnected ends with getPulseCount() = 0 and does nothing else: no reading is
\* taken, baseline, noise and threshold keep their values, nothing is captured.
C4_DisconnectionReset ==
    [][ (ticks' = ticks + 1 /\ tick'.checked)
            => /\ micros - _lastConnectionCheck > CONNECTION_CHECK_INTERVAL
               /\ ~_inputConnected'
                    => /\ _storedCount' = 0
                       /\ tick'.oversamples = 0
                       /\ UNCHANGED << _baseline, _noiseRMS, _threshold, _lastCaptureTime,
                                       _totalPulses, _neutronCount, _pulses >> ]_vars

\* C4 witness: the input was found disconnected with a full ring's worth of pulses captured.
C4_Witness ==
    /\ tick.kind = "disconnected"
    /\ log.completed >= MAX_PULSES
    /\ getPulseCount = 0

\* The detector has only ever read the initial baseline, and has read it.
OnlyRestReadings == _inputConnected /\ log.restOnly /\ log.readings > 0

\* C5 as stated: with every reading equal to the initial baseline the threshold
\* is baseline + 4 * 2.0.
C5_ThresholdAtNoiseFloor ==
    OnlyRestReadings => _threshold * FP = _baseline + 4 * NoiseFloor * FP

\* C5 amended: with every reading equal to the initial baseline the threshold stays
\* at the value the constructor gave it, the baseline stays 512 and the noise
\* estimate stays at its initial 40: updateThreshold is never called.
C5_ThresholdUntouchedAtRest ==
    OnlyRestReadings => /\ _threshold = DefaultThreshold
                        /\ _baseline = InitialBaseline * FP
                        /\ _noiseRMS = InitialNoiseRMS * FP

\* C5 witness: every tick that could take readings took two, all at rest.
C5_Witness == OnlyRestReadings /\ ticks = MaxTicks /\ log.readings >= 2 * (MaxTicks - 2)

\* The counts a caller may ask getPulseHistoryJSON for.
HistoryCounts == 1 .. (MAX_PULSES + 3)

\* count and indices answer a request for N pulses with the min(N, stored) most
\* recent logical indices, oldest first.
SelectsMostRecent(count, indices, N) ==
    LET m == Min(N, getPulseCount)
    IN  /\ count = m
        /\ DOMAIN indices = 1 .. m
        /\ \A k \in 1 .. m :
               /\ indices[k] = getPulseCount - m + k - 1
               /\ indices[k] < getPulseCount

\* Each entry of the array is the pulse object of its logical index.
CarriesPulses(r) ==
    /\ DOMAIN r.pulses = DOMAIN r.indices
    /\ \A k \in DOMAIN r.pulses : r.pulses[k] = addPulseToJSON(r.indices[k])

\* C6: getPulseHistoryJSON(N), N >= 1, returns exactly min(N, getPulseCount()) pulses,
\* in its count field and in its array, and they are logical indices
\* getPulseCount() - min(N, getPulseCount()) .. getPulseCount() - 1, oldest first.
C6_HistoryQuery ==
    /\ \A N \in HistoryCounts : SelectsMostRecent(actualCount(N), HistoryIndices(N), N)
    /\ response.kind = "history"
           => /\ SelectsMostRecent(response.count, response.indices, response.requested)
              /\ CarriesPulses(response)

\* C6 witness: more pulses were requested than are stored, and some are stored.
C6_Witness ==
    /\ response.kind = "history"
    /\ getPulseCount > 0
    /\ response.requested > getPulseCount
    /\ response.count = getPulseCount

\* C7: getLastPulseJSON() answers no_pulses_detected iff getPulseCount() = 0, and
\* otherwise reports logical index getPulseCount() - 1, which is the pulse committed last.
C7_LastPulseQuery ==
    LET r == getLastPulseJSON
    IN  /\ (r.status = "error") <=> (getPulseCount = 0)
        /\ r.status = "error" => r.message = "no_pulses_detected"
        /\ getPulseCount > 0 =>
               LET last == log.pushed[Len(log.pushed)]
               IN  /\ r.pulse = addPulseToJSON(getPulseCount - 1)
                   /\ r.pulse.timestamp = last.timestamp
                   /\ r.pulse.raw_samples = last.samples
                   /\ r.pulse.peak_value = last.peakValue
        /\ response.kind = "last" => response = r

\* C7 witness: the last pulse is asked for after the ring has wrapped and a later
\* capture was abandoned.
C7_Witness ==
    /\ response.kind = "last"
    /\ response.status = "ok"
    /\ getPulseCount = MAX_PULSES
    /\ tick.kind = "abandoned"

\* C8: totalPulses, neutronCount, lastNeutronTime, maxPulseArea and maxDecayTime never
\* decrease, and a disconnection reset leaves all five unchanged.
C8_StatisticsMonotonic ==
    [][ /\ _totalPulses' >= _totalPulses
        /\ _neutronCount' >= _neutronCount
        /\ _lastNeutronTime' >= _lastNeutronTime
        /\ _maxPulseArea' >= _maxPulseArea
        /\ _maxDecayTime' >= _maxDecayTime
        /\ (ticks' = ticks + 1 /\ tick'.kind = "disconnected")
               => UNCHANGED << _totalPulses, _neutronCount, _lastNeutronTime,
                               _maxPulseArea, _maxDecayTime >> ]_vars

\* C8 witness: a pulse was committed whose area and decay time are below the maxima.
C8_Witness ==
    /\ tick.kind = "captured"
    /\ _neutronCount > 0
    /\ LET last == log.pushed[Len(log.pushed)]
       IN  /\ computePulseArea(last) < _maxPulseArea
           /\ computeDecayTime(last) < _maxDecayTime

\* C9: totalPulses grows by exactly one in every tick that triggers a capture, completed
\* or abandoned, and changes in no other step; so it is the number of completed plus
\* the number of abandoned captures.
C9_TotalCountsAttempts ==
    [][ /\ IF ticks' = ticks + 1 /\ tick'.kind \in {"captured", "abandoned"}
           THEN _totalPulses' = _totalPulses + 1
           ELSE _totalPulses' = _totalPulses
        /\ _totalPulses' = log'.completed + log'.abandoned ]_vars

\* C9 witness: a capture was abandoned after another had completed.
C9_Witness ==
    /\ tick.kind = "abandoned"
    /\ log.completed >= 1
    /\ _totalPulses = log.completed + 1

\* C10: a call of getPulseAnalysis(i) (and of getPulse(i)) changes nothing of the
\* detector, and a call repeated with no tick in between returns the same result.
C10_AnalysisSideEffectFree ==
    [][ (response'.kind = "analysis" /\ response' # response)
            => /\ UNCHANGED << detector, micros, ticks >>
               /\ response'.repeated
                    => /\ response'.result = response.result
                       /\ response'.pulse = response.pulse ]_vars

\* C10 witness: the analysis of a stored neutron pulse was asked for twice in a row.
C10_Witness ==
    /\ response.kind = "analysis"
    /\ response.repeated
    /\ response.index < getPulseCount
    /\ response.result.isNeutron


(***************************************************************************)
(* C11.  A captured waveform whose peak is below MIN_PULSE_AMPLITUDE, or   *)
(* whose samples from the peak index on never drop below a tenth of the    *)
(* peak, has decay time -1 and is not a neutron, whatever its rise time    *)
(* and area; capturing it changes neither the neutron count nor the        *)
(* maximum decay time.                                                     *)
(***************************************************************************)
LastPushed(l) == l.pushed[Len(l.pushed)]

Indeterminate(smp) ==
    LET peak == PeakOf(smp)
    IN  \/ peak < 10
        \/ \A i \in SampleIdx : i >= PeakIndexOf(smp) => smp[i] >= peak \div 10

C11_IndeterminateNeverNeutron ==
    [][(ticks' = ticks + 1 /\ tick'.kind = "captured" /\ Indeterminate(LastPushed(log').samples))
        => /\ computeDecayTime(LastPushed(log')) = -1
           /\ ~analyzePulse(LastPushed(log'), _baseline', _threshold').isNeutron
           /\ _neutronCount' = _neutronCount
           /\ _maxDecayTime' = _maxDecayTime]_vars

\* An indeterminate pulse with rise time and area above the neutron limits was
\* captured after neutrons had been counted.
C11_Witness ==
    /\ tick.kind = "captured"
    /\ log.pushed # << >>
    /\ Indeterminate(LastPushed(log).samples)
    /\ PeakOf(LastPushed(log).samples) >= 10
    /\ computeRiseTime(LastPushed(log)) > 12
    /\ computePulseArea(LastPushed(log)) > 500
    /\ _neutronCount > 0
    /\ _neutronCount = log.completed - 1


(***************************************************************************)
(* C12.  _lastCaptureTime changes only in a pass whose capture ran through *)
(* all its samples and was committed to the ring; a pass whose capture is  *)
(* abandoned, or that triggers none, leaves it unchanged.                  *)
(***************************************************************************)
C12_ReferenceOnlyOnCommit ==
    [][_lastCaptureTime' # _lastCaptureTime
        => /\ ticks' = ticks + 1
           /\ tick'.kind = "captured"
           /\ log'.completed = log.completed + 1]_vars


(***************************************************************************)
(* C13.  A pass triggers a capture only if the input is connected, at      *)
(* least 2000 us lie between the last-capture reference and the start of   *)
(* the pass, and the reading minus the baseline is at least the threshold. *)
(* So the start times of two passes that trigger a capture differ by at    *)
(* least 2000 us, and a pass triggers at most one capture.                 *)
(***************************************************************************)
Triggered(t) == t.kind \in {"captured", "abandoned"}

C13_MinimumInterval ==
    [][(ticks' = ticks + 1 /\ Triggered(tick'))
        => /\ _inputConnected'
           /\ tick'.now = micros
           /\ tick'.now - _lastCaptureTime >= 2000
           /\ tick'.reading * FP - _baseline' >= _threshold' * FP
           /\ tick.lastTrigger >= 0 => tick'.now - tick.lastTrigger >= 2000
           /\ log'.completed + log'.abandoned = log.completed + log.abandoned + 1]_vars

\* A capture was triggered for the second time, in a pass without a connection
\* check that started less than 4000 us after the last check.
C13_Witness ==
    /\ Triggered(tick)
    /\ _totalPulses >= 2
    /\ log.completed + log.abandoned = _totalPulses
    /\ tick.now - _lastConnectionCheck < 2 * 2000
    /\ ~tick.checked


(***************************************************************************)
(* C14.  A pass after whose connection-check step (run or skipped) the     *)
(* input is disconnected leaves the baseline, the noise estimate, the      *)
(* threshold, the last-capture reference, the statistics counters and      *)
(* every ring slot unchanged and takes no oversampled reading; no capture  *)
(* is triggered while the last connection check returned disconnected.     *)
(***************************************************************************)
ValidReads(probe) ==
    Cardinality({k \in DOMAIN probe : probe[k] > 10 /\ probe[k] < 1013})

C14_SuspendedWhileDisconnected ==
    [][(ticks' = ticks + 1 /\ (~_inputConnected' \/ ValidReads(lastProbe') < 8))
        => /\ UNCHANGED << _baseline, _noiseRMS, _threshold, _lastCaptureTime, _pulses >>
           /\ UNCHANGED << _totalPulses, _neutronCount, _lastNeutronTime,
                           _maxPulseArea, _maxDecayTime >>
           /\ log'.readings = log.readings
           /\ tick'.oversamples = 0
           /\ ~Triggered(tick')]_vars

\* After captures and a check that found the input disconnected, a pass without a
\* check was skipped.
C14_Witness ==
    /\ tick.kind = "skipped"
    /\ ~_inputConnected
    /\ _totalPulses > 0
    /\ _lastConnectionCheck > 0
    /\ ValidReads(lastProbe) < 8


(***************************************************************************)
(* C15.  A capture abandoned because a read reached MAX_RAW_VALUE, at      *)
(* whatever sample position, leaves _writeIndex, _storedCount,             *)
(* _neutronCount, _lastNeutronTime, _maxPulseArea and _maxDecayTime        *)
(* unchanged; getPulseCount() is the same before and after the pass.       *)
(***************************************************************************)
C15_AbandonCommitsNothing ==
    [][(ticks' = ticks + 1 /\ tick'.kind = "abandoned")
        => /\ UNCHANGED << _writeIndex, _storedCount >>
           /\ UNCHANGED << _neutronCount, _lastNeutronTime, _maxPulseArea, _maxDecayTime >>
           /\ getPulseCount' = getPulseCount
           /\ log'.completed = log.completed]_vars

\* A capture onto a ring holding neutrons was abandoned at its last sample, with all
\* samples before it written.
C15_Witness ==
    /\ tick.kind = "abandoned"
    /\ tick.oversamples = 2 + SAMPLES_PER_PULSE
    /\ _storedCount > 0
    /\ _neutronCount > 0
    /\ _maxDecayTime > 0


(***************************************************************************)
(* C16.  _neutronCount is the number of committed pulses whose analysis at *)
(* capture time had decay time > 25, rise time > 12 and area > 500, all    *)
(* strict; _lastNeutronTime is the timestamp of the last of them, 0 if     *)
(* there is none; and _neutronCount <= _totalPulses.                       *)
(***************************************************************************)
NeutronsAmong(a) ==
    {k \in 1 .. Len(a) : a[k].decayTime > 25 /\ a[k].riseTime > 12 /\ a[k].pulseArea > 500}

C16_StatisticsTrackCommits ==
    LET n == NeutronsAmong(log.analyses)
    IN  /\ _neutronCount = Cardinality(n)
        /\ _lastNeutronTime = IF n = {} THEN 0
                              ELSE log.analyses[CHOOSE k \in n : \A j \in n : j <= k].timestamp
        /\ _neutronCount <= _totalPulses

\* Neutrons were counted, and then a pulse with a neutron's decay and rise time and
\* an area of exactly 500 was committed and not counted.
C16_Witness ==
    /\ tick.kind = "captured"
    /\ log.analyses # << >>
    /\ log.analyses[Len(log.analyses)].pulseArea = 500
    /\ log.analyses[Len(log.analyses)].decayTime > 25
    /\ log.analyses[Len(log.analyses)].riseTime > 12
    /\ _neutronCount = Len(log.analyses) - 1
    /\ _neutronCount > 0
    /\ _lastNeutronTime < LastPushed(log).timestamp


(***************************************************************************)
(* C17.  For a committed waveform with peak >= 10, computeDecayTime is     *)
(* (j - peakIndex) * 10, with peakIndex the first index of the maximum and *)
(* j the first index from peakIndex on whose sample is strictly below 10%  *)
(* of the peak (10 * sample < peak); it is -1 iff there is no such j.      *)
(***************************************************************************)
DecayTimeAsDefined(smp) ==
    LET peak      == PeakOf(smp)
        peakIndex == CHOOSE i \in SampleIdx :
                         /\ smp[i] = peak
                         /\ \A k \in SampleIdx : smp[k] = peak => i <= k
        js        == {i \in SampleIdx : i >= peakIndex /\ 10 * smp[i] < peak}
    IN  IF js = {} THEN -1
        ELSE ((CHOOSE j \in js : \A k \in js : j <= k) - peakIndex) * 10

C17_DecayTimeAsDefined ==
    \A k \in 1 .. Len(log.pushed) :
        PeakOf(log.pushed[k].samples) >= 10
            => computeDecayTime(log.pushed[k]) = DecayTimeAsDefined(log.pushed[k].samples)


(***************************************************************************)
(* C18.  While the clock keeps advancing, every call of update() returns:  *)
(* the waits in overSample and in capturePulse end, whether the pass finds *)
(* the input disconnected, triggers nothing, abandons its capture or       *)
(* commits it, and loop() goes on to serve requests and to the next pass.  *)
(***************************************************************************)
C18_UpdateTerminates == (frame.pc # "idle") ~> (frame.pc = "idle")

\* A pass that committed its capture, with both kinds of wait behind it, has ended.
C18_Witness ==
    /\ frame.pc = "idle"
    /\ frame.outcome = "captured"
    /\ ticks >= 2
    /\ _lastCaptureTime > 0


(***************************************************************************)
(* C19.  In every reachable state 0 <= _writeIndex < MAX_PULSES,           *)
(* 0 <= _storedCount <= MAX_PULSES and _storedCount <= _totalPulses; and   *)
(* while _storedCount < MAX_PULSES the write cursor equals the stored      *)
(* count, so that logical index i is physical slot i.                      *)
(***************************************************************************)
C19_RingStructure ==
    /\ 0 <= _writeIndex /\ _writeIndex < MAX_PULSES
    /\ 0 <= _storedCount /\ _storedCount <= MAX_PULSES
    /\ _storedCount <= _totalPulses
    /\ _storedCount < MAX_PULSES
        => /\ _writeIndex = _storedCount
           /\ \A i \in 0 .. (_storedCount - 1) : actualIndex(i) = i

\* After a commit and a reset the ring is filling again.
C19_Witness ==
    /\ _storedCount = 1
    /\ _writeIndex = 1
    /\ _storedCount < MAX_PULSES
    /\ _totalPulses > _storedCount
    /\ Len(log.analyses) > Len(log.pushed)


(***************************************************************************)
(* C20.  A pass that starts at a time <= 1,000,000 us runs no connection   *)
(* check, no baseline update, no trigger comparison and no capture; the    *)
(* first pulse is captured only in or after a pass that started later than *)
(* 1,000,000 us and whose connection check found at least 8 of its 10      *)
(* reads strictly between 10 and 1013.                                     *)
(***************************************************************************)
C20_NoAcquisitionBeforeFirstCheck ==
    [][ticks' = ticks + 1
        => /\ micros <= 1000000
               => /\ ~tick'.checked
                  /\ tick'.kind = "skipped"
                  /\ tick'.oversamples = 0
                  /\ ~_inputConnected'
                  /\ UNCHANGED << _lastConnectionCheck, _baseline, _noiseRMS, _threshold,
                                  _lastCaptureTime, _pulses, _totalPulses, log >>
           /\ (log.analyses = << >> /\ Triggered(tick'))
               => /\ micros > 1000000
                  /\ _lastConnectionCheck' > 1000000
                  /\ Len(lastProbe') = 10
                  /\ ValidReads(lastProbe') >= 8]_vars

\* The second pass started at exactly 1,000,000 us and was skipped; the check of the
\* third found exactly eight reads valid, and the first pulse was captured.
C20_Witness ==
    /\ tick.kind = "captured"
    /\ tick.checked
    /\ Len(log.analyses) = 1
    /\ ticks = 3
    /\ _lastConnectionCheck = 2 * 1000000 + 1000
    /\ ValidReads(lastProbe) = 8

====
